---- MODULE Spec2Model ----
(***************************************************************************)
(* Model of the gmail "messages forward" and "messages modify" commands    *)
(* of gogcli (internal/cmd/gmail_messages_modify.go).                      *)
(*                                                                         *)
(* Text is modelled as a sequence of tokens (each token a string): a       *)
(* whitespace character is a token of its own, every other token is an     *)
(* opaque run of non-blank characters or a literal of the source's format  *)
(* strings.  fmt.Sprintf and Buffer.WriteString are concatenation (\o).    *)
(* One action is one stretch of a Run method up to and including its next  *)
(* remote call, whose outcome the environment chooses.                     *)
(***************************************************************************)
EXTENDS Integers, Sequences, FiniteSets, TLC

\* ------------------------------------------------------------------ bounds
MaxAtt == 2
MaxNames == 2
MaxAdd == 1
MaxIDs == 2
MaxParts == 2

VARIABLES
    op,          \* "forward" | "modify": the command being run
    pc,          \* position of Run: start, fetch, attach, send, labels, batch, done
    hasAccount,  \* whether requireAccount(flags) succeeds
    isJSON,      \* outfmt.IsJSON(ctx)
    cancelled,   \* ctx has been cancelled
    cMessageID,  \* c.MessageID
    cTo,         \* c.To
    cSubject,    \* c.Subject
    svcBuilt,    \* number of newGmailService calls made
    messageID,   \* Run's local messageID
    to,          \* Run's local to
    original,    \* the fetched message
    subject,     \* Run's local subject
    forwardBody, \* Run's local forwardBody
    attachments, \* Run's local attachments
    idx,         \* 1-based position of the range loop over attachments
    attResult,   \* outcome of addAttachmentToMultipart per attachment handled
    writer,      \* the multipart.Writer and the buffer mimeMsg it writes to
    contentType, \* Run's local contentType
    rawMsg,      \* Run's local rawMsg
    calls,       \* remote calls issued so far, in order
    warnings,    \* lines printed on u.Err()
    out,         \* the result emitted on stdout / u.Out()
    ret,         \* value returned by Run
    cIDs,        \* c.IDs
    addLabels,   \* splitCSV(c.AddLabel)
    removeLabels,\* splitCSV(c.RemoveLabel)
    cArchive,    \* c.Archive
    idMap,       \* label name -> ID table
    addIDs,      \* Run's local addIDs
    removeIDs    \* Run's local removeIDs

fwdVars == <<cMessageID, cTo, cSubject, messageID, to, original, subject,
             forwardBody, attachments, idx, attResult, writer, contentType, rawMsg>>
modVars == <<cIDs, addLabels, removeLabels, cArchive, idMap, addIDs, removeIDs>>
envVars == <<op, hasAccount, isJSON>>
vars == <<op, pc, hasAccount, isJSON, cancelled, svcBuilt, calls, warnings, out, ret,
          fwdVars, modVars>>

\* ------------------------------------------------------------- sequences
SeqUpTo(S, n) == UNION {[1..k -> S] : k \in 0..n}

\* ------------------------------------------------------------------ errors
Nil == [kind |-> "nil"]
Running == [kind |-> "running"]

usage(msg) == [kind |-> "usage", msg |-> msg]

\* fmt.Errorf(context + "%w", err)
Wrap(context, err) == [kind |-> "wrapped", context |-> context, inner |-> err]

ErrNoAccount == [kind |-> "account"]
ErrService == [kind |-> "service"]
ErrCanceled == [kind |-> "remote", why |-> "context canceled"]
ErrNotFound == [kind |-> "remote", why |-> "404"]
RemoteErrors == {ErrNotFound, ErrCanceled}

\* the error the transport gives a failing call made with ctx: the context's
\* error once ctx is cancelled, the server's before
CallFails(e) == e = IF cancelled THEN ErrCanceled ELSE ErrNotFound

\* -------------------------------------------------------- strings.TrimSpace
Whitespace == {" ", "\t", "\n", "\r"}

RECURSIVE TrimLeft(_)
TrimLeft(s) == IF s # <<>> /\ Head(s) \in Whitespace THEN TrimLeft(Tail(s)) ELSE s

RECURSIVE TrimRight(_)
TrimRight(s) ==
    IF s # <<>> /\ s[Len(s)] \in Whitespace THEN TrimRight(SubSeq(s, 1, Len(s) - 1)) ELSE s

TrimSpace(s) == TrimRight(TrimLeft(s))

\* ----------------------------------------------------------------- base64
Blobs == {"PNG", "PDF", "Hello", "World", "<p>Hi</p>"}

\* base64.URLEncoding / base64.StdEncoding of a byte string
EncodeURL(b) == "url:" \o b
EncodeStd(b) == "std:" \o b

\* decodeBase64URLBytes: the bytes when the input is URL-safe base64
decodeBase64URLBytes(d) ==
    IF \E b \in Blobs : EncodeURL(b) = d
    THEN [ok |-> TRUE, bytes |-> CHOOSE b \in Blobs : EncodeURL(b) = d]
    ELSE [ok |-> FALSE, bytes |-> ""]

\* encodeWeb64 of an assembled message (a token sequence)
encodeWeb64(s) == [enc |-> "base64url", data |-> s]

\* ------------------------------------------------------------ MessagePart
Part(mt, fn, hs, d, aid, ps) ==
    [mimeType |-> mt, filename |-> fn, headers |-> hs, data |-> d,
     attachmentId |-> aid, parts |-> ps]

\* a header value as text: the empty string is the empty token sequence
Str(v) == IF v = "" THEN <<>> ELSE <<v>>

\* strings.ToLower on the header names in use
ToLower(n) ==
    CASE n \in {"Subject", "SUBJECT", "subject"} -> "subject"
      [] n \in {"From", "from"} -> "from"
      [] n \in {"To", "to"} -> "to"
      [] n \in {"Date", "date"} -> "date"
      [] OTHER -> n

\* headerValue: value of the first header whose name matches, ignoring case
headerValue(p, name) ==
    LET hs == p.headers
        hit == {i \in 1..Len(hs) : ToLower(hs[i].name) = ToLower(name)}
    IN  IF hit = {} THEN ""
        ELSE hs[CHOOSE i \in hit : \A j \in hit : i <= j].value

\* the parts of a tree in pre-order: node before children, children left to right
RECURSIVE PreOrder(_)
RECURSIVE PreOrderAll(_)
PreOrder(p) == <<p>> \o PreOrderAll(p.parts)
PreOrderAll(ps) == IF ps = <<>> THEN <<>> ELSE PreOrder(Head(ps)) \o PreOrderAll(Tail(ps))

\* a part that carries body data that decodes
HasBody(p, mt) ==
    p.mimeType = mt /\ p.data # "" /\ decodeBase64URLBytes(p.data).ok

\* (mutant) the last text/plain part with body data is picked, not the first
BodyPickLastPlain(root) ==
    LET ps == PreOrder(root)
        plain == {i \in 1..Len(ps) : HasBody(ps[i], "text/plain")}
        html == {i \in 1..Len(ps) : HasBody(ps[i], "text/html")}
    IN  IF plain # {} THEN CHOOSE i \in plain : \A j \in plain : j <= i
        ELSE IF html # {} THEN CHOOSE i \in html : \A j \in html : i <= j
        ELSE 0

\* position in pre-order of the part the Body Selector picks, 0 when none:
\* the first text/plain part with body data, else the first text/html one
BodyPick(root) ==
    LET ps == PreOrder(root)
        first(mt) == {i \in 1..Len(ps) : HasBody(ps[i], mt)
                                          /\ \A j \in 1..(i - 1) : ~HasBody(ps[j], mt)}
    IN  IF first("text/plain") # {} THEN CHOOSE i \in first("text/plain") : TRUE
        ELSE IF first("text/html") # {} THEN CHOOSE i \in first("text/html") : TRUE
        ELSE 0

\* bestBodyForDisplay: the selected body text and whether it is HTML
bestBodyForDisplay(root) ==
    LET i == BodyPick(root)
        ps == PreOrder(root)
    IN  IF i = 0 THEN [body |-> <<>>, isHTML |-> FALSE]
        ELSE [body |-> Str(decodeBase64URLBytes(ps[i].data).bytes),
              isHTML |-> ps[i].mimeType = "text/html"]

attachmentInfo(p) ==
    [Filename |-> p.filename, MimeType |-> p.mimeType, AttachmentID |-> p.attachmentId]

\* (mutant) the descriptors are gathered children first, last child foremost
collectAttachmentsReversed(root) ==
    LET ps == PreOrder(root)
        pick == BodyPick(root)
        isAtt(i) == ps[i].parts = <<>> /\ ps[i].filename # "" /\ i # pick
        RECURSIVE walk(_)
        walk(i) == IF i > Len(ps) THEN <<>>
                   ELSE walk(i + 1) \o (IF isAtt(i) THEN <<attachmentInfo(ps[i])>> ELSE <<>>)
    IN  walk(1)

\* collectAttachments: one descriptor per leaf part with a filename that is
\* not the part picked as body, in pre-order
collectAttachments(root) ==
    LET ps == PreOrder(root)
        pick == BodyPick(root)
        isAtt(i) == ps[i].parts = <<>> /\ ps[i].filename # "" /\ i # pick
        RECURSIVE walk(_)
        walk(i) == IF i > Len(ps) THEN <<>>
                   ELSE (IF isAtt(i) THEN <<attachmentInfo(ps[i])>> ELSE <<>>) \o walk(i + 1)
    IN  walk(1)

\* ------------------------------------------------- messages the server holds
HeaderSets ==
    { << [name |-> "From", value |-> "sender@x"], [name |-> "To", value |-> "me@x"],
         [name |-> "Subject", value |-> "Orig"], [name |-> "Date", value |-> "Mon"] >>,
      << [name |-> "from", value |-> "sender@x"], [name |-> "Date", value |-> "Mon"] >> }

AttLeaves ==
    { Part("image/png", "a.png", <<>>, "", "att1", <<>>),
      Part("application/pdf", "b.pdf", <<>>, "", "att2", <<>>) }

BodyParts ==
    { Part("text/plain", "", <<>>, EncodeURL("Hello"), "", <<>>),
      Part("text/html", "", <<>>, EncodeURL("<p>Hi</p>"), "", <<>>),
      Part("text/plain", "", <<>>, "%%%", "", <<>>),
      Part("multipart/alternative", "", <<>>, "", "",
           << Part("text/html", "", <<>>, EncodeURL("<p>Hi</p>"), "", <<>>),
              Part("text/plain", "", <<>>, EncodeURL("Hello"), "", <<>>) >>),
      Part("multipart/alternative", "", <<>>, "", "",
           << Part("text/plain", "", <<>>, "%%%", "", <<>>),
              Part("text/html", "", <<>>, EncodeURL("<p>Hi</p>"), "", <<>>) >>) }

\* payloads: a single text part, or multipart/mixed with a body part followed
\* by up to MaxAtt attachment parts
Payloads ==
    { Part("text/plain", "", hs, d, "", <<>>) :
          hs \in HeaderSets, d \in {EncodeURL("Hello"), ""} }
    \cup
    { Part("multipart/mixed", "", hs, "", "", <<b>> \o as) :
          hs \in HeaderSets, b \in BodyParts, as \in SeqUpTo(AttLeaves, MaxAtt) }

Messages == { [id |-> "m1", payload |-> p] : p \in Payloads }
NoMessage == [id |-> "", payload |-> Part("", "", <<>>, "", "", <<>>)]

\* ------------------------------------------------------- multipart.Writer
Boundaries == {"B1", "B2"}

\* multipart.NewWriter(&mimeMsg) with the random boundary b
NewWriter(b) == [boundary |-> b, buf |-> <<>>, nparts |-> 0, closed |-> FALSE]
NoWriter == [boundary |-> "", buf |-> <<>>, nparts |-> 0, closed |-> FALSE]

\* MIME header keys in the sorted order CreatePart writes them
HeaderOrder == <<"Content-Disposition", "Content-Transfer-Encoding", "Content-Type">>

RECURSIVE HeaderLines(_, _)
HeaderLines(h, i) ==
    IF i > Len(HeaderOrder) THEN <<>>
    ELSE (IF HeaderOrder[i] \in DOMAIN h
          THEN <<HeaderOrder[i], ": ">> \o h[HeaderOrder[i]] \o <<"\r\n">>
          ELSE <<>>) \o HeaderLines(h, i + 1)

\* writer.CreatePart(header): delimiter line, header lines, blank line
CreatePart(w, h) ==
    [w EXCEPT !.buf = @ \o (IF w.nparts = 0 THEN <<"--", w.boundary, "\r\n">>
                            ELSE <<"\r\n", "--", w.boundary, "\r\n">>)
                        \o HeaderLines(h, 1) \o <<"\r\n">>,
              !.nparts = @ + 1]

\* part.Write(bytes)
WritePart(w, bytes) == [w EXCEPT !.buf = @ \o bytes]

\* writer.Close(): closing delimiter
CloseWriter(w) ==
    [w EXCEPT !.buf = @ \o <<"\r\n", "--", w.boundary, "--", "\r\n">>, !.closed = TRUE]

\* ------------------------------------------------------- remote responses
\* Users.Messages.Attachments.Get: an error, or data that may fail to decode
AttResponses ==
    { [err |-> Nil, data |-> EncodeURL("PNG")], [err |-> Nil, data |-> "%%%"] }
    \cup { [err |-> e, data |-> ""] : e \in RemoteErrors }

\* Users.Messages.Send: an error, or the sent message's id and thread id
SendResponses ==
    { [err |-> Nil, Id |-> "s1", ThreadId |-> "t1"] }
    \cup { [err |-> e, Id |-> "", ThreadId |-> ""] : e \in RemoteErrors }

\* the log entry of a remote call: what was asked and the error it gave
GetCall(mid, e) == [api |-> "messages.get", id |-> mid, err |-> e]
AttachmentCall(mid, att, e) ==
    [api |-> "attachments.get", id |-> mid, att |-> att.AttachmentID, err |-> e]
SendCall(raw, e) == [api |-> "messages.send", raw |-> raw, err |-> e]
LabelsCall(e) == [api |-> "labels.list", err |-> e]
BatchCall(req, e) == [api |-> "messages.batchModify", req |-> req, err |-> e]

\* a response the transport can give under the current ctx
Possible(resp) == IF resp.err = Nil THEN ~cancelled ELSE CallFails(resp.err)

\* ------------------------------------------------- GmailMessagesForwardCmd
\* (mutant) the arguments are tested without strings.TrimSpace
ValidateForwardNoTrim(acc, mid, rcpt) ==
    IF ~acc THEN ErrNoAccount
    ELSE IF mid = <<>> THEN usage("message ID is required")
    ELSE IF rcpt = <<>> THEN usage("--to is required")
    ELSE Nil

\* Run's checks before the service is built
ValidateForward(acc, mid, rcpt) ==
    IF ~acc THEN ErrNoAccount
    ELSE IF TrimSpace(mid) = <<>> THEN usage("message ID is required")
    ELSE IF TrimSpace(rcpt) = <<>> THEN usage("--to is required")
    ELSE Nil

\* (mutant) the fetch error is returned without phase context
FetchMessageErrorBare(e) == e

\* error returned when the original message cannot be fetched
FetchMessageError(e) == Wrap("fetching message: ", e)

\* (mutant) the send error carries the fetch phase's context
SendErrorWrongPhase(e) == Wrap("fetching message: ", e)

\* error returned when the send fails
SendError(e) == Wrap("sending forwarded message: ", e)

\* (mutant) the override is ignored
SubjectForAlwaysFwd(override, originalSubject) == <<"Fwd: ">> \o originalSubject

\* "Build subject"
SubjectFor(override, originalSubject) ==
    IF override = <<>> THEN <<"Fwd: ">> \o originalSubject ELSE override

\* (mutant) the preamble quotes To before From
ForwardBodyTextSwapped(originalFrom, originalDate, originalSubject, originalTo, originalBody) ==
    <<"---------- Forwarded message ----------", "\n", "From: ">> \o originalTo
    \o <<"\n", "Date: ">> \o originalDate
    \o <<"\n", "Subject: ">> \o originalSubject
    \o <<"\n", "To: ">> \o originalFrom
    \o <<"\n", "\n">> \o originalBody

\* "Build the forwarded message body"
ForwardBodyText(originalFrom, originalDate, originalSubject, originalTo, originalBody) ==
    <<"---------- Forwarded message ----------", "\n", "From: ">> \o originalFrom
    \o <<"\n", "Date: ">> \o originalDate
    \o <<"\n", "Subject: ">> \o originalSubject
    \o <<"\n", "To: ">> \o originalTo
    \o <<"\n", "\n">> \o originalBody

\* (mutant) the header declares a boundary of its own, not the writer's
ContentTypeForOwnBoundary(w) == <<"multipart/mixed; boundary=\"", "B1", "\"">>

\* "Set content type header"
ContentTypeFor(w) == <<"multipart/mixed; boundary=\"", w.boundary, "\"">>

\* "Write text part"
TextPart(w, body) ==
    WritePart(CreatePart(w, ("Content-Type" :> <<"text/plain; charset=utf-8">>)), body)

\* "Create attachment part header"
AttachHeader(att) ==
    ("Content-Type" :> Str(att.MimeType))
    @@ ("Content-Disposition" :> <<"attachment; filename=\"", att.Filename, "\"">>)
    @@ ("Content-Transfer-Encoding" :> <<"base64">>)

\* (mutant) data that does not decode is written into a part as it came
addAttachmentToMultipartRawOnFailure(w, att, resp) ==
    IF resp.err # Nil THEN [err |-> Wrap("fetching attachment: ", resp.err), writer |-> w]
    ELSE LET d == decodeBase64URLBytes(resp.data)
         IN  IF ~d.ok
             THEN [err |-> Wrap("decoding attachment data: ", [kind |-> "base64"]),
                   writer |-> WritePart(CreatePart(w, AttachHeader(att)), <<resp.data>>)]
             ELSE [err |-> Nil,
                   writer |-> WritePart(CreatePart(w, AttachHeader(att)), <<EncodeStd(d.bytes)>>)]

\* (mutant) the part is created before the data is decoded, so that an
\* attachment whose data does not decode leaves an empty part behind
addAttachmentToMultipartEarlyPart(w, att, resp) ==
    IF resp.err # Nil THEN [err |-> Wrap("fetching attachment: ", resp.err), writer |-> w]
    ELSE LET d == decodeBase64URLBytes(resp.data)
         IN  IF ~d.ok
             THEN [err |-> Wrap("decoding attachment data: ", [kind |-> "base64"]),
                   writer |-> CreatePart(w, AttachHeader(att))]
             ELSE [err |-> Nil,
                   writer |-> WritePart(CreatePart(w, AttachHeader(att)), <<EncodeStd(d.bytes)>>)]

\* addAttachmentToMultipart, given the response of the attachment fetch:
\* the error it returns and the writer it leaves
addAttachmentToMultipart(w, att, resp) ==
    IF resp.err # Nil THEN [err |-> Wrap("fetching attachment: ", resp.err), writer |-> w]
    ELSE LET d == decodeBase64URLBytes(resp.data)
         IN  IF ~d.ok
             THEN [err |-> Wrap("decoding attachment data: ", [kind |-> "base64"]), writer |-> w]
             ELSE [err |-> Nil,
                   writer |-> WritePart(CreatePart(w, AttachHeader(att)), <<EncodeStd(d.bytes)>>)]

\* the warning printed on u.Err() for a failed attachment
WarnLine(att, err) ==
    [text |-> "Warning: failed to attach %s: %v", name |-> att.Filename, err |-> err]

\* "Build the complete raw message with headers"
RawMessage(rcpt, subj, ctype, mime) ==
    <<"To: ">> \o rcpt \o <<"\r\n">>
    \o <<"Subject: ">> \o subj \o <<"\r\n">>
    \o <<"Content-Type: ">> \o ctype \o <<"\r\n">>
    \o <<"\r\n">> \o mime

\* the attachment count Run reports
ReportedCount(atts) == Len(atts)

NoOutput == [kind |-> "none"]

\* (mutant) the sent and the source message IDs are reported swapped
ForwardJSONSwapped(sent, rcpt, subj, mid, n) ==
    [kind |-> "json", sent |-> mid, threadId |-> sent.ThreadId, to |-> rcpt,
     subject |-> subj, forwarded |-> sent.Id, attachments |-> n]

\* outfmt.WriteJSON(os.Stdout, ...) of the forward
ForwardJSON(sent, rcpt, subj, mid, n) ==
    [kind |-> "json", sent |-> sent.Id, threadId |-> sent.ThreadId, to |-> rcpt,
     subject |-> subj, forwarded |-> mid, attachments |-> n]

\* u.Out().Successf("Forwarded message %s to %s with %d attachment(s) (sent: %s)")
ForwardText(sent, rcpt, subj, mid, n) ==
    [kind |-> "text", forwarded |-> mid, to |-> rcpt, attachments |-> n, sent |-> sent.Id]

\* Run returns e without having emitted anything more
Return(e) == ret' = e /\ pc' = "done"

\* Run up to newGmailService
FwdStart ==
    /\ op = "forward" /\ pc = "start"
    /\ LET e == ValidateForward(hasAccount, cMessageID, cTo)
       IN  IF e # Nil
           THEN Return(e) /\ UNCHANGED <<svcBuilt, messageID, to>>
           ELSE \E built \in BOOLEAN :
                  /\ svcBuilt' = svcBuilt + 1
                  /\ messageID' = TrimSpace(cMessageID)
                  /\ to' = TrimSpace(cTo)
                  /\ IF built THEN pc' = "fetch" /\ ret' = ret ELSE Return(ErrService)
    /\ UNCHANGED <<envVars, cancelled, calls, warnings, out, modVars, cMessageID, cTo,
                   cSubject, original, subject, forwardBody, attachments, idx, attResult,
                   writer, contentType, rawMsg>>

\* "Close the multipart writer" and "Build the complete raw message"
Finish(w, rcpt, subj, ctype) ==
    LET c == CloseWriter(w) IN [writer |-> c, rawMsg |-> RawMessage(rcpt, subj, ctype, c.buf)]

\* (mutant) an original without a usable body makes Run return an error
FwdFetchBodyRequired ==
    /\ op = "forward" /\ pc = "fetch"
    /\ \/ \E e \in RemoteErrors :
            /\ CallFails(e)
            /\ calls' = Append(calls, GetCall(messageID, e))
            /\ Return(FetchMessageError(e))
            /\ UNCHANGED <<original, subject, forwardBody, attachments, idx, writer,
                           contentType, rawMsg>>
       \/ \E m \in Messages, b \in Boundaries :
            LET p == m.payload
                originalSubject == Str(headerValue(p, "Subject"))
                originalFrom == Str(headerValue(p, "From"))
                originalTo == Str(headerValue(p, "To"))
                originalDate == Str(headerValue(p, "Date"))
                subj == SubjectFor(cSubject, originalSubject)
                fb == ForwardBodyText(originalFrom, originalDate, originalSubject,
                                      originalTo, bestBodyForDisplay(p).body)
                atts == collectAttachments(p)
                w0 == NewWriter(b)
                ct == ContentTypeFor(w0)
                w1 == TextPart(w0, fb)
                fin == Finish(w1, to, subj, ct)
            IN  /\ ~cancelled
                /\ calls' = Append(calls, GetCall(messageID, Nil))
                /\ original' = m
                /\ IF bestBodyForDisplay(p).body = <<>>
                   THEN /\ Return(Wrap("selecting body: ", [kind |-> "empty"]))
                        /\ UNCHANGED <<subject, forwardBody, attachments, contentType,
                                       idx, writer, rawMsg>>
                   ELSE /\ subject' = subj
                        /\ forwardBody' = fb
                        /\ attachments' = atts
                        /\ contentType' = ct
                        /\ idx' = 1
                        /\ ret' = ret
                        /\ IF atts = <<>>
                           THEN writer' = fin.writer /\ rawMsg' = fin.rawMsg /\ pc' = "send"
                           ELSE writer' = w1 /\ rawMsg' = rawMsg /\ pc' = "attach"
    /\ UNCHANGED <<envVars, cancelled, svcBuilt, warnings, out, modVars, cMessageID, cTo,
                   cSubject, messageID, to, attResult>>

\* Users.Messages.Get and, when it succeeds, Run up to the first attachment
\* fetch (or up to the send when no attachment was collected)
FwdFetch ==
    /\ op = "forward" /\ pc = "fetch"
    /\ \/ \E e \in RemoteErrors :
            /\ CallFails(e)
            /\ calls' = Append(calls, GetCall(messageID, e))
            /\ Return(FetchMessageError(e))
            /\ UNCHANGED <<original, subject, forwardBody, attachments, idx, writer,
                           contentType, rawMsg>>
       \/ \E m \in Messages, b \in Boundaries :
            LET p == m.payload
                originalSubject == Str(headerValue(p, "Subject"))
                originalFrom == Str(headerValue(p, "From"))
                originalTo == Str(headerValue(p, "To"))
                originalDate == Str(headerValue(p, "Date"))
                subj == SubjectFor(cSubject, originalSubject)
                fb == ForwardBodyText(originalFrom, originalDate, originalSubject,
                                      originalTo, bestBodyForDisplay(p).body)
                atts == collectAttachments(p)
                w0 == NewWriter(b)
                ct == ContentTypeFor(w0)
                w1 == TextPart(w0, fb)
                fin == Finish(w1, to, subj, ct)
            IN  /\ ~cancelled
                /\ calls' = Append(calls, GetCall(messageID, Nil))
                /\ original' = m
                /\ subject' = subj
                /\ forwardBody' = fb
                /\ attachments' = atts
                /\ contentType' = ct
                /\ idx' = 1
                /\ ret' = ret
                /\ IF atts = <<>>
                   THEN writer' = fin.writer /\ rawMsg' = fin.rawMsg /\ pc' = "send"
                   ELSE writer' = w1 /\ rawMsg' = rawMsg /\ pc' = "attach"
    /\ UNCHANGED <<envVars, cancelled, svcBuilt, warnings, out, modVars, cMessageID, cTo,
                   cSubject, messageID, to, attResult>>

\* (mutant) the attachments are fetched from the last descriptor to the first
FwdAttachReversed ==
    /\ op = "forward" /\ pc = "attach"
    /\ LET att == attachments[Len(attachments) + 1 - idx]
       IN  \E resp \in AttResponses :
                LET r == addAttachmentToMultipart(writer, att, resp)
                    fin == Finish(r.writer, to, subject, contentType)
                IN  /\ Possible(resp)
                    /\ calls' = Append(calls, AttachmentCall(messageID, att, resp.err))
                    /\ attResult' = Append(attResult, r.err)
                    /\ warnings' = IF r.err # Nil THEN Append(warnings, WarnLine(att, r.err))
                                   ELSE warnings
                    /\ idx' = idx + 1
                    /\ IF idx = Len(attachments)
                       THEN writer' = fin.writer /\ rawMsg' = fin.rawMsg /\ pc' = "send"
                       ELSE writer' = r.writer /\ rawMsg' = rawMsg /\ pc' = "attach"
    /\ UNCHANGED <<envVars, cancelled, svcBuilt, out, ret, modVars, cMessageID, cTo,
                   cSubject, messageID, to, original, subject, forwardBody, attachments,
                   contentType>>

\* (mutant) an attachment whose fetch failed is fetched a second time
FwdAttachRetry ==
    /\ op = "forward" /\ pc = "attach"
    /\ LET att == attachments[idx]
       IN  \E resp \in AttResponses :
                LET r == addAttachmentToMultipart(writer, att, resp)
                    fin == Finish(r.writer, to, subject, contentType)
                    again == /\ r.err # Nil
                             /\ Cardinality({i \in 1..Len(calls) :
                                    calls[i].api = "attachments.get"}) = idx - 1
                IN  /\ Possible(resp)
                    /\ calls' = Append(calls, AttachmentCall(messageID, att, resp.err))
                    /\ IF again
                       THEN UNCHANGED <<attResult, warnings, idx, writer, rawMsg, pc>>
                       ELSE /\ attResult' = Append(attResult, r.err)
                            /\ warnings' = IF r.err # Nil
                                           THEN Append(warnings, WarnLine(att, r.err))
                                           ELSE warnings
                            /\ idx' = idx + 1
                            /\ IF idx = Len(attachments)
                               THEN /\ writer' = fin.writer /\ rawMsg' = fin.rawMsg
                                    /\ pc' = "send"
                               ELSE writer' = r.writer /\ rawMsg' = rawMsg /\ pc' = "attach"
    /\ UNCHANGED <<envVars, cancelled, svcBuilt, out, ret, modVars, cMessageID, cTo,
                   cSubject, messageID, to, original, subject, forwardBody, attachments,
                   contentType>>

\* (mutant) a failed attachment makes Run return the error
FwdAttachAbort ==
    /\ op = "forward" /\ pc = "attach"
    /\ LET att == attachments[idx]
       IN  \E resp \in AttResponses :
                LET r == addAttachmentToMultipart(writer, att, resp)
                    fin == Finish(r.writer, to, subject, contentType)
                IN  /\ Possible(resp)
                    /\ calls' = Append(calls, AttachmentCall(messageID, att, resp.err))
                    /\ attResult' = Append(attResult, r.err)
                    /\ warnings' = warnings
                    /\ idx' = idx + 1
                    /\ IF r.err # Nil
                       THEN writer' = r.writer /\ rawMsg' = rawMsg /\ Return(r.err)
                       ELSE /\ ret' = ret
                            /\ IF idx = Len(attachments)
                               THEN /\ writer' = fin.writer /\ rawMsg' = fin.rawMsg
                                    /\ pc' = "send"
                               ELSE writer' = r.writer /\ rawMsg' = rawMsg /\ pc' = "attach"
    /\ UNCHANGED <<envVars, cancelled, svcBuilt, out, modVars, cMessageID, cTo,
                   cSubject, messageID, to, original, subject, forwardBody, attachments,
                   contentType>>

\* one turn of "Fetch and attach each attachment"; after the last one, Run up
\* to the send
FwdAttach ==
    /\ op = "forward" /\ pc = "attach"
    /\ LET att == attachments[idx]
       IN  \E resp \in AttResponses :
                LET r == addAttachmentToMultipart(writer, att, resp)
                    fin == Finish(r.writer, to, subject, contentType)
                IN  /\ Possible(resp)
                    /\ calls' = Append(calls, AttachmentCall(messageID, att, resp.err))
                    /\ attResult' = Append(attResult, r.err)
                    /\ warnings' = IF r.err # Nil THEN Append(warnings, WarnLine(att, r.err))
                                   ELSE warnings
                    /\ idx' = idx + 1
                    /\ IF idx = Len(attachments)
                       THEN writer' = fin.writer /\ rawMsg' = fin.rawMsg /\ pc' = "send"
                       ELSE writer' = r.writer /\ rawMsg' = rawMsg /\ pc' = "attach"
    /\ UNCHANGED <<envVars, cancelled, svcBuilt, out, ret, modVars, cMessageID, cTo,
                   cSubject, messageID, to, original, subject, forwardBody, attachments,
                   contentType>>

\* Users.Messages.Send and the result Run emits
FwdSend ==
    /\ op = "forward" /\ pc = "send"
    /\ \E sent \in SendResponses :
         /\ Possible(sent)
         /\ calls' = Append(calls, SendCall(encodeWeb64(rawMsg), sent.err))
         /\ IF sent.err # Nil
            THEN Return(SendError(sent.err)) /\ out' = out
            ELSE /\ out' = IF isJSON
                           THEN ForwardJSON(sent, to, subject, messageID,
                                            ReportedCount(attachments))
                           ELSE ForwardText(sent, to, subject, messageID,
                                            ReportedCount(attachments))
                 /\ Return(Nil)
    /\ UNCHANGED <<envVars, cancelled, svcBuilt, warnings, modVars, fwdVars>>

\* -------------------------------------------------- GmailMessagesModifyCmd
LabelNames == {"INBOX", "Custom", "Nope"}
AddNames == {"Work", "Nope"}
MessageNames == {"m1", "m2"}

\* label tables the server may return (fetchLabelNameToID)
Tables ==
    { ("INBOX" :> "INBOX"),
      ("INBOX" :> "INBOX") @@ ("Custom" :> "Label_1") @@ ("Work" :> "Label_2"),
      ("Custom" :> "Label_1") }
NoTable == ("" :> "")

\* resolveLabelIDs: the ID of every requested name the table holds, in
\* request order; a name the table does not hold is dropped
RECURSIVE resolveLabelIDs(_, _)
resolveLabelIDs(labels, table) ==
    IF labels = <<>> THEN <<>>
    ELSE (IF Head(labels) \in DOMAIN table THEN <<table[Head(labels)]>> ELSE <<>>)
         \o resolveLabelIDs(Tail(labels), table)

\* (mutant) a request that names no action is let through
ValidateModifyNoActionCheck(acc, ids, adds, removes, archive) ==
    IF ~acc THEN ErrNoAccount
    ELSE IF Len(ids) = 0 THEN usage("must specify --ids")
    ELSE Nil

\* Run's checks before the service is built
ValidateModify(acc, ids, adds, removes, archive) ==
    IF ~acc THEN ErrNoAccount
    ELSE IF Len(ids) = 0 THEN usage("must specify --ids")
    ELSE IF Len(adds) = 0 /\ Len(removes) = 0 /\ ~archive
         THEN usage("must specify --add-label, --remove-label, and/or --archive")
    ELSE Nil

\* (mutant) INBOX is put in front of the explicit removals
ArchiveMergePrepend(removes, archive) ==
    IF archive /\ ~(\E i \in 1..Len(removes) : removes[i] = "INBOX")
    THEN <<"INBOX">> \o removes
    ELSE removes

\* (mutant) INBOX is appended without the membership check
ArchiveMergeAlways(removes, archive) ==
    IF archive THEN Append(removes, "INBOX") ELSE removes

\* "Archive means remove from INBOX"
ArchiveMerge(removes, archive) ==
    IF archive /\ ~(\E i \in 1..Len(removes) : removes[i] = "INBOX")
    THEN Append(removes, "INBOX")
    ELSE removes

\* error returned when the label table cannot be fetched
FetchLabelsError(e) == e

BatchRequest(ids, adds, removes) ==
    [Ids |-> ids, AddLabelIds |-> adds, RemoveLabelIds |-> removes]

\* (mutant) the result reports the two label sets under each other's key
ModifyJSONSwapped(ids, adds, removes, archive) ==
    [kind |-> "json", modified |-> ids, count |-> Len(ids), addedLabels |-> removes,
     removedLabels |-> adds, archived |-> archive]

\* outfmt.WriteJSON(os.Stdout, ...) of the modify
ModifyJSON(ids, adds, removes, archive) ==
    [kind |-> "json", modified |-> ids, count |-> Len(ids), addedLabels |-> adds,
     removedLabels |-> removes, archived |-> archive]

\* u.Out().Printf("Modified %d message(s)")
ModifyText(ids) == [kind |-> "text", count |-> Len(ids)]

\* Run up to newGmailService
ModStart ==
    /\ op = "modify" /\ pc = "start"
    /\ LET e == ValidateModify(hasAccount, cIDs, addLabels, removeLabels, cArchive)
       IN  IF e # Nil
           THEN Return(e) /\ svcBuilt' = svcBuilt
           ELSE \E built \in BOOLEAN :
                  /\ svcBuilt' = svcBuilt + 1
                  /\ IF built THEN pc' = "labels" /\ ret' = ret ELSE Return(ErrService)
    /\ UNCHANGED <<envVars, cancelled, calls, warnings, out, modVars, fwdVars>>

\* (mutant) the requested names are sent as they are, unresolved
ModFetchLabelsUnresolved ==
    /\ op = "modify" /\ pc = "labels"
    /\ \/ \E e \in RemoteErrors :
            /\ CallFails(e)
            /\ calls' = Append(calls, LabelsCall(e))
            /\ Return(FetchLabelsError(e))
            /\ UNCHANGED <<idMap, addIDs, removeIDs>>
       \/ \E t \in Tables :
            /\ calls' = Append(calls, LabelsCall(Nil))
            /\ idMap' = t
            /\ addIDs' = addLabels
            /\ removeIDs' = ArchiveMerge(removeLabels, cArchive)
            /\ pc' = "batch"
            /\ ret' = ret
    /\ UNCHANGED <<envVars, cancelled, svcBuilt, warnings, out, fwdVars, cIDs, addLabels,
                   removeLabels, cArchive>>

\* fetchLabelNameToID (which is not given ctx) and, when it succeeds, Run up
\* to BatchModify
ModFetchLabels ==
    /\ op = "modify" /\ pc = "labels"
    /\ \/ \E e \in RemoteErrors :
            /\ CallFails(e)
            /\ calls' = Append(calls, LabelsCall(e))
            /\ Return(FetchLabelsError(e))
            /\ UNCHANGED <<idMap, addIDs, removeIDs>>
       \/ \E t \in Tables :
            /\ calls' = Append(calls, LabelsCall(Nil))
            /\ idMap' = t
            /\ addIDs' = resolveLabelIDs(addLabels, t)
            /\ removeIDs' = ArchiveMerge(resolveLabelIDs(removeLabels, t), cArchive)
            /\ pc' = "batch"
            /\ ret' = ret
    /\ UNCHANGED <<envVars, cancelled, svcBuilt, warnings, out, fwdVars, cIDs, addLabels,
                   removeLabels, cArchive>>

\* Users.Messages.BatchModify and the result Run emits
ModBatch ==
    /\ op = "modify" /\ pc = "batch"
    /\ \/ \E e \in RemoteErrors :
            /\ CallFails(e)
            /\ calls' = Append(calls, BatchCall(BatchRequest(cIDs, addIDs, removeIDs), e))
            /\ Return(e)
            /\ out' = out
       \/ /\ ~cancelled
          /\ calls' = Append(calls, BatchCall(BatchRequest(cIDs, addIDs, removeIDs), Nil))
          /\ out' = IF isJSON THEN ModifyJSON(cIDs, addIDs, removeIDs, cArchive)
                    ELSE ModifyText(cIDs)
          /\ Return(Nil)
    /\ UNCHANGED <<envVars, cancelled, svcBuilt, warnings, fwdVars, modVars>>

\* the caller cancels ctx while Run is under way
Cancel ==
    /\ pc # "done" /\ ~cancelled
    /\ cancelled' = TRUE
    /\ UNCHANGED <<envVars, pc, svcBuilt, calls, warnings, out, ret, fwdVars, modVars>>

\* ---------------------------------------------------------------- the runs
MessageIDArgs == {<<>>, <<" ">>, <<" ", "m1", "\t">>}
ToArgs == {<<>>, <<" ", "\t">>, <<"r@x", " ">>}
SubjectArgs == {<<>>, <<"Custom">>, <<"FYI: ", "Orig">>}

Init ==
    /\ op \in {"forward", "modify"}
    /\ pc = "start"
    /\ hasAccount \in BOOLEAN
    /\ isJSON \in BOOLEAN
    /\ cancelled = FALSE
    /\ svcBuilt = 0
    /\ calls = <<>>
    /\ warnings = <<>>
    /\ out = NoOutput
    /\ ret = Running
    /\ messageID = <<>> /\ to = <<>> /\ original = NoMessage /\ subject = <<>>
    /\ forwardBody = <<>> /\ attachments = <<>> /\ idx = 0 /\ attResult = <<>>
    /\ writer = NoWriter /\ contentType = <<>> /\ rawMsg = <<>>
    /\ idMap = NoTable /\ addIDs = <<>> /\ removeIDs = <<>>
    /\ IF op = "forward"
       THEN /\ cMessageID \in MessageIDArgs
            /\ cTo \in ToArgs
            /\ cSubject \in SubjectArgs
            /\ cIDs = <<>> /\ addLabels = <<>> /\ removeLabels = <<>> /\ cArchive = FALSE
       ELSE /\ cMessageID = <<>> /\ cTo = <<>> /\ cSubject = <<>>
            /\ cIDs \in SeqUpTo(MessageNames, MaxIDs)
            /\ addLabels \in SeqUpTo(AddNames, MaxAdd)
            /\ removeLabels \in SeqUpTo(LabelNames, MaxNames)
            /\ cArchive \in BOOLEAN

Next ==
    \/ FwdStart
    \/ FwdFetch
    \/ FwdAttach
    \/ FwdSend
    \/ ModStart
    \/ ModFetchLabels
    \/ ModBatch
    \/ Cancel

Spec == Init /\ [][Next]_vars

\* ------------------------------------------- the Body Selector on its own
\* leaf parts of the trees: two text/plain parts with different texts, a
\* text/html part, a text/plain part whose data does not decode, and a
\* text/plain part without body data
TextLeaves ==
    { Part("text/plain", "", <<>>, EncodeURL("Hello"), "", <<>>),
      Part("text/plain", "", <<>>, EncodeURL("World"), "", <<>>),
      Part("text/html", "", <<>>, EncodeURL("<p>Hi</p>"), "", <<>>),
      Part("text/plain", "", <<>>, "%%%", "", <<>>),
      Part("text/plain", "", <<>>, "", "", <<>>) }

\* further leaves: a text/html part whose data does not decode, a text/plain
\* part that carries both a filename and body data, and the attachment leaves
OtherLeaves ==
    { Part("text/html", "", <<>>, "%%%", "", <<>>),
      Part("text/plain", "notes.txt", <<>>, EncodeURL("Hello"), "", <<>>) }
    \cup AttLeaves

\* leaves found below an inner node
InnerLeaves ==
    { Part("text/plain", "", <<>>, EncodeURL("World"), "", <<>>),
      Part("text/html", "", <<>>, EncodeURL("<p>Hi</p>"), "", <<>>),
      Part("application/pdf", "b.pdf", <<>>, "", "att2", <<>>) }

\* multipart/alternative nodes of up to MaxParts leaves
InnerNodes ==
    { Part("multipart/alternative", "", <<>>, "", "", ps) : ps \in SeqUpTo(InnerLeaves, MaxParts) }

\* trees: a single leaf, or multipart/mixed over up to MaxParts leaves and
\* multipart/alternative nodes
Trees ==
    TextLeaves \cup OtherLeaves
    \cup { Part("multipart/mixed", "", <<>>, "", "", ps) :
               ps \in SeqUpTo(TextLeaves \cup OtherLeaves \cup InnerNodes, MaxParts) }

\* (mutant) a body taken from HTML is handed on converted to text
BodyResultAsText(r) ==
    [kind |-> "body", body |-> IF r.isHTML THEN <<"Hi">> ELSE r.body, isHTML |-> FALSE]

\* the result of bestBodyForDisplay as Run receives it
BodyResult(r) == [kind |-> "body", body |-> r.body, isHTML |-> r.isHTML]

SelInit ==
    /\ op = "select"
    /\ pc = "start"
    /\ hasAccount = TRUE
    /\ isJSON = FALSE
    /\ cancelled = FALSE
    /\ svcBuilt = 0
    /\ calls = <<>>
    /\ warnings = <<>>
    /\ out = NoOutput
    /\ ret = Running
    /\ messageID = <<>> /\ to = <<>> /\ subject = <<>>
    /\ forwardBody = <<>> /\ attachments = <<>> /\ idx = 0 /\ attResult = <<>>
    /\ writer = NoWriter /\ contentType = <<>> /\ rawMsg = <<>>
    /\ idMap = NoTable /\ addIDs = <<>> /\ removeIDs = <<>>
    /\ cMessageID = <<>> /\ cTo = <<>> /\ cSubject = <<>>
    /\ cIDs = <<>> /\ addLabels = <<>> /\ removeLabels = <<>> /\ cArchive = FALSE
    /\ original \in { [id |-> "m1", payload |-> t] : t \in Trees }

\* originalBody, _ := bestBodyForDisplay(original.Payload) and
\* attachments := collectAttachments(original.Payload)
SelectBody ==
    /\ op = "select" /\ pc = "start"
    /\ out' = BodyResult(bestBodyForDisplay(original.payload))
    /\ attachments' = collectAttachments(original.payload)
    /\ pc' = "done"
    /\ UNCHANGED <<envVars, cancelled, svcBuilt, calls, warnings, ret, modVars, cMessageID,
                   cTo, cSubject, messageID, to, original, subject, forwardBody, idx,
                   attResult, writer, contentType, rawMsg>>

SelNext == SelectBody

SelSpec == SelInit /\ [][SelNext]_vars

\* ======================================================================
\* Properties
\* ======================================================================

\* number of positions of s holding x
Count(s, x) == Cardinality({i \in 1..Len(s) : s[i] = x})

\* s holds t as a contiguous run of tokens
Contains(s, t) ==
    \E i \in 0..(Len(s) - Len(t)) : \A j \in 1..Len(t) : s[i + j] = t[j]

\* first position of token x in s, 0 when absent
IndexOf(s, x) ==
    IF \E i \in 1..Len(s) : s[i] = x
    THEN CHOOSE i \in 1..Len(s) : s[i] = x /\ \A j \in 1..(i - 1) : s[j] # x
    ELSE 0

\* positions of the call log holding a call of the given api
CallsOf(api) == {i \in 1..Len(calls) : calls[i].api = api}

\* the forward has fetched the original and gone on to compose
Composed == op = "forward" /\ original # NoMessage

\* the message handed to Users.Messages.Send, decoded from its transport form
SentRaw == calls[CHOOSE i \in CallsOf("messages.send") : TRUE].raw.data
WasSent == CallsOf("messages.send") # {}

\* the tokens of s after its first token x
After(s, x) == SubSeq(s, IndexOf(s, x) + 1, Len(s))

\* the tokens of s before its first token x (all of s when x is absent)
Before(s, x) == IF IndexOf(s, x) = 0 THEN s ELSE SubSeq(s, 1, IndexOf(s, x) - 1)

\* value of the header line of raw that starts with the token name
HeaderOf(raw, name) == Before(After(raw, name), "\r\n")

\* the k-th line of s (lines end at "\n") and what follows the first k lines
RECURSIVE RestAfterLines(_, _)
RestAfterLines(s, k) == IF k = 0 THEN s ELSE RestAfterLines(After(s, "\n"), k - 1)
LineAt(s, k) == Before(RestAfterLines(s, k - 1), "\n")

\* attachments whose addAttachmentToMultipart call failed / succeeded so far
FailedAtt == {i \in 1..Len(attResult) : attResult[i] # Nil}
EmbeddedAtt == {i \in 1..Len(attResult) : attResult[i] = Nil}

\* the subsequence of s at the positions in I
RECURSIVE Pick(_, _, _)
Pick(s, I, i) ==
    IF i > Len(s) THEN <<>>
    ELSE (IF i \in I THEN <<s[i]>> ELSE <<>>) \o Pick(s, I, i + 1)

OriginalSubject == Str(headerValue(original.payload, "Subject"))

\* C1: a failed attachment is not fatal to the forward: every failure so far
\* has produced one warning naming that attachment's filename, in order; the
\* loop goes on to every remaining attachment; the message is then submitted;
\* and Run returns nil or the send's own error, never the attachment's.
C1_AttachmentFailureNonFatal ==
    Composed =>
      /\ Len(warnings) = Cardinality(FailedAtt)
      /\ [i \in 1..Len(warnings) |-> warnings[i].name]
           = [i \in 1..Cardinality(FailedAtt) |->
                 Pick(attachments, FailedAtt, 1)[i].Filename]
      /\ \A i \in 1..Len(warnings) : warnings[i].err = Pick(attResult, FailedAtt, 1)[i]
      /\ pc = "attach" => Len(attResult) = idx - 1 /\ idx <= Len(attachments)
      /\ pc \in {"send", "done"} => Len(attResult) = Len(attachments)
      /\ pc = "done" =>
           /\ Cardinality(CallsOf("messages.send")) = 1
           /\ Cardinality(CallsOf("attachments.get")) = Len(attachments)
           /\ \A i \in EmbeddedAtt : Contains(SentRaw, <<attachments[i].Filename>>)
           /\ \/ ret = Nil
              \/ ret.kind = "wrapped" /\ ret.context = "sending forwarded message: "

\* C1 witness: a forward that returned nil although one of its two
\* attachments failed and the other was embedded
C1_Witness ==
    /\ Composed /\ pc = "done" /\ ret = Nil
    /\ Len(attachments) = 2 /\ FailedAtt # {} /\ EmbeddedAtt # {}

\* C2 (as claimed): the reported attachment count is the number of
\* attachments embedded in the sent message (n - k when k of n failed).
C2_CountIsEmbedded ==
    (op = "forward" /\ out # NoOutput) => out.attachments = Cardinality(EmbeddedAtt)

\* C3 (as claimed): a forward that embeds no attachment submits a flat
\* text/plain message without boundary and reports attachment count 0.
C3_ZeroAttachmentsFlat ==
    (Composed /\ WasSent /\ EmbeddedAtt = {}) =>
      /\ HeaderOf(SentRaw, "Content-Type: ") = <<"text/plain; charset=utf-8">>
      /\ ~(\E b \in Boundaries : Contains(SentRaw, <<b>>))
      /\ (out # NoOutput => out.attachments = 0)
      /\ (calls[Len(calls)].err = Nil => ret = Nil)

\* C4: the Subject header of the sent message is the caller's subject when
\* that is non-empty and "Fwd: " + the original Subject header otherwise, and
\* the JSON result reports that same subject.
C4_Subject ==
    (Composed /\ WasSent) =>
      /\ HeaderOf(SentRaw, "Subject: ")
           = IF cSubject # <<>> THEN cSubject ELSE <<"Fwd: ">> \o OriginalSubject
      /\ (out.kind = "json" => out.subject = HeaderOf(SentRaw, "Subject: "))

\* C4 witness: a sent forward without override of a message that has a subject,
\* reported as JSON
C4_Witness ==
    /\ Composed /\ WasSent /\ out.kind = "json"
    /\ cSubject = <<>> /\ OriginalSubject # <<>>

\* the content of the text part of an assembled multipart message
TextPartOf(raw) ==
    LET rest == After(raw, "text/plain; charset=utf-8")
    IN  Before(SubSeq(rest, 3, Len(rest)), "\r\n")

\* the layout of the forward body in the sent message: the fixed first line,
\* then the From, Date, Subject and To values of the original in that order,
\* a blank line, and the selected body
C5_Layout ==
    LET p == original.payload
        b == TextPartOf(SentRaw)
    IN  /\ LineAt(b, 1) = <<"---------- Forwarded message ----------">>
        /\ LineAt(b, 2) = <<"From: ">> \o Str(headerValue(p, "From"))
        /\ LineAt(b, 3) = <<"Date: ">> \o Str(headerValue(p, "Date"))
        /\ LineAt(b, 4) = <<"Subject: ">> \o OriginalSubject
        /\ LineAt(b, 5) = <<"To: ">> \o Str(headerValue(p, "To"))
        /\ LineAt(b, 6) = <<>>
        /\ RestAfterLines(b, 6) = bestBodyForDisplay(p).body
        /\ b = forwardBody

\* C5 (as claimed): the body has the preamble layout with the original
\* subject quoted, and with an override the original subject never appears
\* in the Subject header.
C5_OriginalSubjectNeverInHeader ==
    (Composed /\ WasSent) =>
      /\ C5_Layout
      /\ (cSubject # <<>> /\ OriginalSubject # <<>>)
           => ~Contains(HeaderOf(SentRaw, "Subject: "), OriginalSubject)

\* C5 (amended): the body has the preamble layout with the original subject
\* quoted also under an override, and with an override the Subject header is
\* the override alone, so that the original subject appears in it only where
\* the override itself contains it.
C5_PreambleQuotesOriginal ==
    (Composed /\ WasSent) =>
      /\ C5_Layout
      /\ cSubject # <<>> =>
           /\ HeaderOf(SentRaw, "Subject: ") = cSubject
           /\ Contains(HeaderOf(SentRaw, "Subject: "), OriginalSubject)
                <=> Contains(cSubject, OriginalSubject)

\* C5 witness: a sent forward with an override that differs from the subject
\* of the original
C5_Witness ==
    /\ Composed /\ WasSent
    /\ cSubject = <<"Custom">> /\ OriginalSubject = <<"Orig">>

\* C6: a forward whose recipient or message ID is empty after trimming is
\* rejected before anything remote happens: no service is built, no call is
\* issued, nothing is emitted, and Run returns an error, a usage error
\* whenever the account resolved.
C6_ValidationBeforeRemote ==
    (op = "forward" /\ (TrimSpace(cMessageID) = <<>> \/ TrimSpace(cTo) = <<>>)) =>
      /\ svcBuilt = 0
      /\ calls = <<>>
      /\ out = NoOutput
      /\ pc \in {"start", "done"}
      /\ pc = "done" => ret # Nil /\ (hasAccount => ret.kind = "usage")

\* C6 witness: a forward with a whitespace-only recipient and a good message
\* ID, rejected with a usage error
C6_Witness ==
    /\ op = "forward" /\ pc = "done" /\ hasAccount
    /\ TrimSpace(cMessageID) # <<>> /\ cTo # <<>> /\ TrimSpace(cTo) = <<>>
    /\ ret.kind = "usage"

\* the fetch of the original message / of the label table has failed
GetFailed == op = "forward" /\ calls # <<>> /\ calls[1].err # Nil
LabelsFailed == op = "modify" /\ calls # <<>> /\ calls[1].err # Nil

\* a failed first fetch ends the run: no later call, nothing emitted
C7_Fatal ==
    (GetFailed \/ LabelsFailed) =>
      /\ Len(calls) = 1
      /\ calls[1].api \in {"messages.get", "labels.list"}
      /\ out = NoOutput
      /\ pc = "done"
      /\ ret \notin {Nil, Running}

\* C7 (as claimed): a failed fetch of the original message or of the label
\* table is fatal, and the error comes back wrapped with phase context.
C7_FetchErrorWrapped ==
    /\ C7_Fatal
    /\ GetFailed => ret = Wrap("fetching message: ", calls[1].err)
    /\ LabelsFailed => ret.kind = "wrapped" /\ ret.inner = calls[1].err

\* C7 (amended): a failed fetch of the original message or of the label table
\* is fatal; the forward returns the error wrapped with "fetching message: ",
\* the modify returns the label fetch's error as it is, adding no context.
C7_FetchErrorFatal ==
    /\ C7_Fatal
    /\ GetFailed => ret = Wrap("fetching message: ", calls[1].err)
    /\ LabelsFailed => ret = calls[1].err

\* C7 witness: a forward whose fetch of the original failed
C7_Witness == GetFailed /\ pc = "done"

\* C8: a failed send is fatal: Run returns the send's error wrapped with
\* "sending forwarded message: " and emits no result.
C8_SendFailureFatal ==
    (op = "forward" /\ WasSent) =>
      /\ calls[Len(calls)].api = "messages.send"
      /\ pc = "done"
      /\ IF calls[Len(calls)].err # Nil
         THEN /\ ret = Wrap("sending forwarded message: ", calls[Len(calls)].err)
              /\ out = NoOutput
         ELSE ret = Nil /\ out # NoOutput

\* C8 witness: a forward with an embedded attachment whose send failed
C8_Witness ==
    /\ op = "forward" /\ WasSent /\ calls[Len(calls)].err # Nil
    /\ EmbeddedAtt # {}

\* the forward has succeeded
ForwardSucceeded == op = "forward" /\ pc = "done" /\ ret = Nil

\* what the result reports agrees with what was sent and fetched
C9_Values ==
    /\ \E r \in SendResponses : r.err = Nil /\ out.sent = r.Id
    /\ out.to = HeaderOf(SentRaw, "To: ") /\ out.to = TrimSpace(cTo)
    /\ out.forwarded = calls[1].id /\ out.forwarded = TrimSpace(cMessageID)
    /\ out.attachments = Len(attachments)

C9_JSONValues ==
    /\ \E r \in SendResponses : r.err = Nil /\ out.sent = r.Id /\ out.threadId = r.ThreadId
    /\ out.subject = HeaderOf(SentRaw, "Subject: ")

\* C9 (as claimed): a successful forward emits a result holding the sent ID,
\* the thread ID, the recipient, the subject, the source ID and the
\* attachment count, the recipient, subject and source ID being the ones sent
\* and fetched.
C9_ResultHasAllFields ==
    ForwardSucceeded =>
      /\ {"sent", "threadId", "to", "subject", "forwarded", "attachments"} \subseteq DOMAIN out
      /\ C9_Values
      /\ C9_JSONValues

\* C9 (amended): a successful forward in JSON mode emits all six fields; in
\* human-readable mode it emits a line holding only the source ID, the
\* recipient, the attachment count and the sent ID.  In both, the recipient
\* is the trimmed one of the To header sent, the source ID the trimmed one
\* fetched, and in JSON the subject is the one of the Subject header sent.
C9_ResultMatchesSent ==
    ForwardSucceeded =>
      /\ out.kind = (IF isJSON THEN "json" ELSE "text")
      /\ DOMAIN out = (IF isJSON
                       THEN {"kind", "sent", "threadId", "to", "subject", "forwarded",
                             "attachments"}
                       ELSE {"kind", "sent", "to", "forwarded", "attachments"})
      /\ C9_Values
      /\ isJSON => C9_JSONValues

\* C9 witness: a successful forward reported as JSON
C9_Witness == ForwardSucceeded /\ isJSON /\ Len(attachments) > 0

\* the request handed to Users.Messages.BatchModify
BatchIssued == CallsOf("messages.batchModify") # {}
BatchReq == calls[CHOOSE i \in CallsOf("messages.batchModify") : TRUE].req

\* C10 (as claimed): with the archive flag, INBOX is in the removal set sent
\* to batch-modify exactly once, whatever the explicit removal list.
C10_InboxExactlyOnce ==
    (op = "modify" /\ cArchive /\ BatchIssued) => Count(BatchReq.RemoveLabelIds, "INBOX") = 1

\* C10 (amended): with the archive flag, INBOX is in the removal set sent to
\* batch-modify, and the archive flag never adds a second occurrence: INBOX
\* occurs once when the resolved explicit list holds it at most once, and as
\* often as the resolved explicit list holds it otherwise.
C10_InboxNotDuplicatedByArchive ==
    (op = "modify" /\ cArchive /\ BatchIssued) =>
      LET n == Count(resolveLabelIDs(removeLabels, idMap), "INBOX")
      IN  Count(BatchReq.RemoveLabelIds, "INBOX") = IF n = 0 THEN 1 ELSE n

\* C10 witness: an archive request that also names INBOX for removal, sent to
\* batch-modify with INBOX resolved from the explicit list
C10_Witness ==
    /\ op = "modify" /\ cArchive /\ BatchIssued
    /\ removeLabels = <<"INBOX">> /\ "INBOX" \in DOMAIN idMap

\* C11: the archive merge adds nothing except INBOX: the removal set sent is
\* the resolved explicit removal list in its order, with INBOX appended at the
\* end only when archive is set and the resolved list does not hold it; with
\* archive and no explicit removal it is exactly <<"INBOX">>; and the add set
\* is the resolved add list whatever the archive flag.
C11_ArchiveAddsOnlyInbox ==
    (op = "modify" /\ BatchIssued) =>
      LET r == resolveLabelIDs(removeLabels, idMap)
      IN  /\ BatchReq.RemoveLabelIds
               = IF cArchive /\ Count(r, "INBOX") = 0 THEN r \o <<"INBOX">> ELSE r
          /\ BatchReq.AddLabelIds = resolveLabelIDs(addLabels, idMap)
          /\ (cArchive /\ removeLabels = <<>>) => BatchReq.RemoveLabelIds = <<"INBOX">>

\* C11 witness: an archive request with an explicit removal that resolves to
\* another label and with an add label, sent to batch-modify
C11_Witness ==
    /\ op = "modify" /\ cArchive /\ BatchIssued
    /\ resolveLabelIDs(removeLabels, idMap) = <<"Label_1">>
    /\ resolveLabelIDs(addLabels, idMap) # <<>>

\* the label table has been fetched
LabelsFetched == op = "modify" /\ calls # <<>> /\ calls[1].err = Nil

\* the IDs the table gives for the names of the list that it holds, in order
MatchedIDs(labels) ==
    LET M == {i \in 1..Len(labels) : labels[i] \in DOMAIN idMap}
        picked == Pick(labels, M, 1)
    IN  [i \in 1..Len(picked) |-> idMap[picked[i]]]

\* the names of the list that the table does not hold
Unmatched(labels) == {labels[i] : i \in {j \in 1..Len(labels) : labels[j] \notin DOMAIN idMap}}

NoIDs == op = "modify" /\ Len(cIDs) = 0
NoAction == op = "modify" /\ Len(addLabels) = 0 /\ Len(removeLabels) = 0 /\ ~cArchive

\* C13: a modify with no message IDs, or with no add label, no removal label
\* and no archive flag, is rejected before anything remote happens: no service
\* is built, the label table is not fetched, batch-modify is not invoked,
\* nothing is emitted, and Run returns an error, which whenever the account
\* resolved is the usage error "must specify --ids" or "must specify
\* --add-label, --remove-label, and/or --archive".
C13_ModifyValidationBeforeRemote ==
    (NoIDs \/ NoAction) =>
      /\ svcBuilt = 0
      /\ calls = <<>>
      /\ out = NoOutput
      /\ pc \in {"start", "done"}
      /\ pc = "done" =>
           /\ ret # Nil
           /\ hasAccount =>
                /\ ret.kind = "usage"
                /\ ret.msg = IF NoIDs THEN "must specify --ids"
                             ELSE "must specify --add-label, --remove-label, and/or --archive"

\* C13 witness: a modify that names message IDs and no action, rejected with
\* the usage error
C13_Witness ==
    /\ NoAction /\ ~NoIDs /\ hasAccount /\ pc = "done"
    /\ ret.kind = "usage"

\* the modify has succeeded
ModifySucceeded == op = "modify" /\ pc = "done" /\ ret = Nil

\* C14: on a successful modify, the one batch-modify request carries the
\* caller's message IDs unchanged and in order, the resolved add set and the
\* resolved removal set (with INBOX when archived), and the result agrees with
\* that request: its count is the number of IDs sent, and in JSON "modified" is
\* the IDs sent, "addedLabels" and "removedLabels" are the sets sent and
\* "archived" is the archive flag (the human-readable line reports the count
\* alone).
C14_ResultMatchesRequest ==
    ModifySucceeded =>
      /\ Cardinality(CallsOf("messages.batchModify")) = 1
      /\ BatchReq.Ids = cIDs
      /\ BatchReq.AddLabelIds = resolveLabelIDs(addLabels, idMap)
      /\ BatchReq.RemoveLabelIds = ArchiveMerge(resolveLabelIDs(removeLabels, idMap), cArchive)
      /\ cArchive => Count(BatchReq.RemoveLabelIds, "INBOX") >= 1
      /\ out.kind = (IF isJSON THEN "json" ELSE "text")
      /\ out.count = Len(BatchReq.Ids)
      /\ isJSON =>
           /\ out.modified = BatchReq.Ids
           /\ out.addedLabels = BatchReq.AddLabelIds
           /\ out.removedLabels = BatchReq.RemoveLabelIds
           /\ out.archived = cArchive

\* C14 witness: a successful archive of two different messages, in the order
\* m2, m1, with an add label resolved, reported as JSON
C14_Witness ==
    /\ ModifySucceeded /\ isJSON /\ cArchive
    /\ cIDs = <<"m2", "m1">> /\ addIDs # <<>>

\* the body of an assembled message: what follows the blank line that ends
\* its header block
BodyOf(raw) ==
    LET i == CHOOSE k \in 1..(Len(raw) - 1) :
                 /\ raw[k] = "\r\n" /\ raw[k + 1] = "\r\n"
                 /\ \A j \in 1..(k - 1) : ~(raw[j] = "\r\n" /\ raw[j + 1] = "\r\n")
    IN  SubSeq(raw, i + 2, Len(raw))

\* positions of body where a delimiter line starts: "--" at the start of a line
DelimAt(body) ==
    {i \in 1..(Len(body) - 1) : body[i] = "--" /\ (i = 1 \/ body[i - 1] = "\r\n")}

\* the boundary the Content-Type header of an assembled message declares
DeclaredBoundary(raw) == HeaderOf(raw, "Content-Type: ")[2]

\* C15: the boundary declared in the Content-Type header of the message sent
\* is the one on every delimiter line of its body, one line per part and the
\* closing line that ends the body, and no other boundary occurs in the
\* message; from the moment the header value is computed, it names the
\* boundary the writer holds.
C15_BoundaryMatches ==
    /\ Composed => contentType = <<"multipart/mixed; boundary=\"", writer.boundary, "\"">>
    /\ (Composed /\ WasSent) =>
         LET ct == HeaderOf(SentRaw, "Content-Type: ")
             declared == DeclaredBoundary(SentRaw)
             body == BodyOf(SentRaw)
         IN  /\ Len(ct) = 3 /\ ct[1] = "multipart/mixed; boundary=\"" /\ ct[3] = "\""
             /\ declared \in Boundaries
             /\ \A i \in DelimAt(body) : body[i + 1] = declared
             /\ Cardinality(DelimAt(body)) = Cardinality(EmbeddedAtt) + 2
             /\ SubSeq(body, Len(body) - 4, Len(body))
                  = <<"\r\n", "--", declared, "--", "\r\n">>
             /\ \A b \in Boundaries \ {declared} : ~Contains(SentRaw, <<b>>)

\* C15 witness: a message sent with two embedded attachments under the
\* boundary B2
C15_Witness ==
    /\ Composed /\ WasSent /\ Cardinality(EmbeddedAtt) = 2
    /\ writer.boundary = "B2"

\* the elements of a set of numbers in increasing order
RECURSIVE SortedSeq(_)
SortedSeq(S) ==
    IF S = {} THEN <<>>
    ELSE LET m == CHOOSE x \in S : \A y \in S : x <= y
         IN  <<m>> \o SortedSeq(S \ {m})

\* the parts of a multipart body: what stands between one delimiter line and
\* the line break before the next
PartsOf(body) ==
    LET ds == SortedSeq(DelimAt(body))
    IN  [j \in 1..(Len(ds) - 1) |-> SubSeq(body, ds[j] + 3, ds[j + 1] - 2)]

\* value of the header key of a part
PartHeaderOf(part, key) ==
    LET r == After(part, key) IN Before(SubSeq(r, 2, Len(r)), "\r\n")

\* C16: the message sent has as its first part the text body, with
\* Content-Type text/plain; charset=utf-8 and the forward body as content,
\* followed by one part for each attachment that addAttachmentToMultipart
\* embedded and none for one that failed; the attachment parts stand in the
\* order in which the Attachment Collector gave the descriptors.
C16_PartsInCollectorOrder ==
    (Composed /\ WasSent) =>
      LET parts == PartsOf(BodyOf(SentRaw))
          emb == Pick(attachments, EmbeddedAtt, 1)
      IN  /\ attachments = collectAttachments(original.payload)
          /\ Len(parts) = 1 + Len(emb)
          /\ parts[1] = <<"Content-Type", ": ", "text/plain; charset=utf-8", "\r\n", "\r\n">>
                        \o forwardBody
          /\ \A k \in 1..Len(emb) :
               /\ PartHeaderOf(parts[k + 1], "Content-Disposition")
                    = <<"attachment; filename=\"", emb[k].Filename, "\"">>
               /\ PartHeaderOf(parts[k + 1], "Content-Type") = Str(emb[k].MimeType)
          /\ \A i \in FailedAtt :
               (\A k \in 1..Len(emb) : emb[k].Filename # attachments[i].Filename)
                 => ~Contains(SentRaw, <<attachments[i].Filename>>)

\* C16 witness: a message sent with b.pdf embedded before a.png, as collected
C16_Witness ==
    /\ Composed /\ WasSent /\ Cardinality(EmbeddedAtt) = 2
    /\ attachments[1].Filename = "b.pdf" /\ attachments[2].Filename = "a.png"

\* C17 (as claimed): once a remote call of the forward has returned the
\* cancellation of ctx, no send call is issued.
C17_NoSendAfterCancel ==
    op = "forward" =>
      \A j \in CallsOf("messages.send") : \A i \in 1..(j - 1) : calls[i].err # ErrCanceled

\* the body selection has been made on a tree of its own
Selected == op = "select" /\ pc = "done"

\* positions in pre-order of the parts of the given type whose data passes ok
PartsWith(root, mt, ok(_)) ==
    {i \in 1..Len(PreOrder(root)) :
        PreOrder(root)[i].mimeType = mt /\ ok(PreOrder(root)[i].data)}

HasData(d) == d # ""
Decodes(d) == d # "" /\ decodeBase64URLBytes(d).ok

\* the selection is the decoded text of the first of the candidates, not HTML
PlainWins(root, cands) ==
    LET first == CHOOSE i \in cands : \A j \in cands : i <= j
    IN  /\ ~out.isHTML
        /\ out.body = Str(decodeBase64URLBytes(PreOrder(root)[first].data).bytes)

\* C18 (as claimed): for every tree with a text/plain part with body data
\* and a text/html part, the Body Selector returns the text of the first
\* text/plain part with body data in pre-order, never the HTML.
C18_PlainWhenPlainHasData ==
    Selected =>
      LET root == original.payload
          plain == PartsWith(root, "text/plain", HasData)
      IN  (plain # {} /\ PartsWith(root, "text/html", HasData) # {})
            => PlainWins(root, plain)

\* C18 (amended): for every tree with a text/plain part whose body data
\* decodes and a text/html part, the Body Selector returns the text of the
\* first such text/plain part in pre-order, never the HTML, whatever the
\* position or depth of the parts; a text/plain part whose data does not
\* decode is passed over, and when no text/plain part decodes the selection
\* is the HTML.
C18_PlainWhenPlainDecodes ==
    Selected =>
      LET root == original.payload
          plain == PartsWith(root, "text/plain", Decodes)
          html == PartsWith(root, "text/html", Decodes)
      IN  /\ (plain # {} /\ html # {}) => PlainWins(root, plain)
          /\ (plain = {} /\ html # {}) => out.isHTML /\ out.body = <<"<p>Hi</p>">>

\* C18 witness: the tree mixed[alternative[html, plain "World"], plain
\* "Hello"], where the HTML comes first and the first text/plain part lies
\* deeper than the second; "World" is selected
C18_Witness ==
    /\ Selected
    /\ Len(original.payload.parts) = 2
    /\ original.payload.parts[1].mimeType = "multipart/alternative"
    /\ Len(original.payload.parts[1].parts) = 2
    /\ original.payload.parts[1].parts[1].mimeType = "text/html"
    /\ original.payload.parts[1].parts[2].data = EncodeURL("World")
    /\ original.payload.parts[2].data = EncodeURL("Hello")
    /\ out.body = <<"World">>

\* the calls of the given api in the order they were issued
CallSeq(api) == [k \in 1..Cardinality(CallsOf(api)) |-> calls[SortedSeq(CallsOf(api))[k]]]

\* C19: no remote call is retried, whatever its outcome: the log of one
\* invocation holds at most one fetch of the original, at most one send, at
\* most one fetch of the label table and at most one batch-modify; it holds at
\* most one fetch per collected attachment, the k-th fetch being for the k-th
\* descriptor; and a fetch of the original, a send, a label fetch or a
\* batch-modify that failed is the last call of the invocation.
C19_NoRetry ==
    /\ \A api \in {"messages.get", "messages.send", "labels.list", "messages.batchModify"} :
         /\ Cardinality(CallsOf(api)) <= 1
         /\ \A i \in CallsOf(api) : calls[i].err # Nil => i = Len(calls)
    /\ Len(CallSeq("attachments.get")) <= Len(attachments)
    /\ \A k \in 1..Len(CallSeq("attachments.get")) :
         CallSeq("attachments.get")[k].att = attachments[k].AttachmentID

\* C19 witness: a forward of two attachments in which the first attachment
\* fetch failed and the send failed, ended with three calls after the fetch of
\* the original
C19_Witness ==
    /\ op = "forward" /\ pc = "done" /\ Len(attachments) = 2
    /\ attachments[1].AttachmentID # attachments[2].AttachmentID
    /\ attResult[1] # Nil /\ WasSent /\ calls[Len(calls)].err # Nil
    /\ Len(calls) = 4

\* the attachment fetches of the log, each with the descriptor it was for
AttCalls == CallSeq("attachments.get")

\* C20: the remote calls of a forward are issued one after another, each
\* having returned before the next is issued: the fetch of the original is the
\* first call and has succeeded before any other call; the attachment fetches
\* follow it without gap, the k-th being for the k-th descriptor of the
\* collector; and the send is the last call, issued only when every collected
\* attachment has been fetched and either embedded or reported in a warning.
C20_CallsInSequence ==
    (op = "forward" /\ calls # <<>>) =>
      /\ calls[1].api = "messages.get"
      /\ Len(calls) > 1 => calls[1].err = Nil
      /\ \A k \in 1..Len(AttCalls) :
           /\ calls[k + 1] = AttCalls[k]
           /\ AttCalls[k].att = attachments[k].AttachmentID
      /\ Len(AttCalls) = Len(attResult)
      /\ Len(calls) <= 1 + Len(attachments) + 1
      /\ \A j \in CallsOf("messages.send") :
           /\ j = Len(calls)
           /\ j = 1 + Len(attachments) + 1
           /\ Len(AttCalls) = Len(attachments)
           /\ Cardinality(EmbeddedAtt) + Len(warnings) = Len(attachments)
           /\ Cardinality(FailedAtt) = Len(warnings)
           /\ Len(PartsOf(BodyOf(calls[j].raw.data))) = 1 + Cardinality(EmbeddedAtt)

\* C20 witness: the send of a forward of b.pdf and a.png, issued as the fourth
\* call after b.pdf was embedded and a.png reported as failed
C20_Witness ==
    /\ op = "forward" /\ WasSent /\ Len(calls) = 4
    /\ attachments[1].Filename = "b.pdf" /\ attachments[2].Filename = "a.png"
    /\ attResult[1] = Nil /\ attResult[2] # Nil

\* C21 (as claimed): every line of the message handed to encodeWeb64, the
\* three header lines, the blank line and the body, ends in CRLF and none in a
\* bare LF; the whole message is encoded once as URL-safe base64, and the
\* content of every attachment part in it is standard base64.
C21_AllLinesCRLF ==
    (Composed /\ WasSent) =>
      LET j == CHOOSE i \in CallsOf("messages.send") : TRUE
          parts == PartsOf(BodyOf(SentRaw))
      IN  /\ Count(SentRaw, "\n") = 0
          /\ calls[j].raw.enc = "base64url"
          /\ \A k \in 2..Len(parts) :
               \E b \in Blobs : parts[k][Len(parts[k])] = EncodeStd(b)

\* the text of the first of the candidate parts of a tree
FirstText(root, cands) ==
    Str(decodeBase64URLBytes(
            PreOrder(root)[CHOOSE i \in cands : \A j \in cands : i <= j].data).bytes)

\* the body a tree offers: the text of its first text/plain part that
\* decodes, else of its first text/html part that decodes, else nothing
BodyOffered(root) ==
    IF PartsWith(root, "text/plain", Decodes) # {}
    THEN FirstText(root, PartsWith(root, "text/plain", Decodes))
    ELSE IF PartsWith(root, "text/html", Decodes) # {}
    THEN FirstText(root, PartsWith(root, "text/html", Decodes))
    ELSE <<>>

\* C22: body selection never makes the forward fail: once the original is
\* fetched, Run goes on to compose, and returns nothing but nil or the send's
\* own error; the body that follows the preamble is the text of the first
\* part that decodes (a part whose data does not decode is passed over), and
\* it is empty when no text/plain or text/html part carries data that decodes;
\* the message is then sent with that body.
C22_BodySelectionNeverFails ==
    Composed =>
      /\ pc \in {"attach", "send", "done"}
      /\ \/ ret \in {Running, Nil}
         \/ ret.kind = "wrapped" /\ ret.context = "sending forwarded message: "
      /\ LineAt(forwardBody, 1) = <<"---------- Forwarded message ----------">>
      /\ RestAfterLines(forwardBody, 6) = BodyOffered(original.payload)
      /\ pc = "done" => WasSent /\ TextPartOf(SentRaw) = forwardBody

\* C22 witness: a forward of a message whose only body part carries data
\* that does not decode, sent with an empty body after the preamble
C22_Witness ==
    /\ Composed /\ pc = "done" /\ ret = Nil
    /\ original.payload.mimeType = "multipart/mixed"
    /\ original.payload.parts[1].data = "%%%"
    /\ RestAfterLines(TextPartOf(SentRaw), 6) = <<>>

\* C23 (as claimed): for a tree with no text/plain part with body data and
\* with a text/html part, the Body Selector returns the content of the first
\* text/html part in pre-order.
C23_FirstHTMLReturned ==
    Selected =>
      LET root == original.payload
          html == {i \in 1..Len(PreOrder(root)) : PreOrder(root)[i].mimeType = "text/html"}
      IN  (PartsWith(root, "text/plain", HasData) = {} /\ html # {})
            => out.body = FirstText(root, html)

\* C23 (amended): for a tree in which no text/plain part carries body data
\* that decodes and some text/html part does, the Body Selector returns the
\* content of the first text/html part in pre-order whose data decodes, as it
\* is, markup included, and marks it as HTML; a text/html part whose data
\* does not decode is passed over.
C23_FirstDecodableHTMLReturned ==
    Selected =>
      LET root == original.payload
          html == PartsWith(root, "text/html", Decodes)
      IN  (PartsWith(root, "text/plain", Decodes) = {} /\ html # {})
            => /\ out.isHTML
               /\ out.body = FirstText(root, html)
               /\ out.body = <<"<p>Hi</p>">>

\* C23 witness: the tree mixed[text/plain without data, alternative[html]],
\* for which the markup of the HTML part, one level down, is returned
C23_Witness ==
    /\ Selected
    /\ Len(original.payload.parts) = 2
    /\ original.payload.parts[1].mimeType = "text/plain"
    /\ original.payload.parts[1].data = ""
    /\ original.payload.parts[2].mimeType = "multipart/alternative"
    /\ Len(original.payload.parts[2].parts) = 1
    /\ original.payload.parts[2].parts[1].mimeType = "text/html"
    /\ out = [kind |-> "body", body |-> <<"<p>Hi</p>">>, isHTML |-> TRUE]

\* position in pre-order of the part whose text is the body offered, 0 if none
PickedAt(root) ==
    LET plain == PartsWith(root, "text/plain", Decodes)
        html == PartsWith(root, "text/html", Decodes)
    IN  IF plain # {} THEN CHOOSE i \in plain : \A j \in plain : i <= j
        ELSE IF html # {} THEN CHOOSE i \in html : \A j \in html : i <= j
        ELSE 0

\* the descriptors of the parts of a tree at the positions in I, in pre-order
Descriptors(root, I) ==
    LET sel == Pick(PreOrder(root), I, 1)
    IN  [k \in 1..Len(sel) |->
            [Filename |-> sel[k].filename, MimeType |-> sel[k].mimeType,
             AttachmentID |-> sel[k].attachmentId]]

\* positions in pre-order of the leaf parts with a non-empty filename
NamedLeaves(root) ==
    {i \in 1..Len(PreOrder(root)) :
        PreOrder(root)[i].parts = <<>> /\ PreOrder(root)[i].filename # ""}

\* C24 (as claimed): for every tree the Attachment Collector returns one
\* descriptor per leaf part with a non-empty filename, in pre-order.
C24_OnePerNamedLeaf ==
    Selected =>
      attachments = Descriptors(original.payload, NamedLeaves(original.payload))

\* C24 (amended): for every tree the Attachment Collector returns one
\* descriptor per leaf part with a non-empty filename other than the part the
\* Body Selector picked as the body, in pre-order, left to right; the
\* sequence is a function of the tree.
C24_OnePerNamedLeafButBody ==
    Selected =>
      attachments = Descriptors(original.payload,
                                NamedLeaves(original.payload)
                                  \ {PickedAt(original.payload)})

\* C24 witness: the tree mixed[alternative[b.pdf], a.png], collected as
\* b.pdf, from one level down, before a.png
C24_Witness ==
    /\ Selected
    /\ Len(original.payload.parts) = 2
    /\ original.payload.parts[1].mimeType = "multipart/alternative"
    /\ Len(original.payload.parts[1].parts) = 1
    /\ original.payload.parts[1].parts[1].filename = "b.pdf"
    /\ original.payload.parts[2].filename = "a.png"
    /\ Len(attachments) = 2
    /\ attachments[1].Filename = "b.pdf" /\ attachments[2].Filename = "a.png"

\* C25: a step in which addAttachmentToMultipart returns an error adds
\* nothing of that attachment to the message under construction: the writer
\* holds the same parts and the same bytes after the step as before it, but
\* for the closing delimiter when the failed attachment was the last one, in
\* which case the body of the message built for sending is exactly those
\* bytes.
C25_FailedLeavesUnchanged ==
    [][ (/\ op = "forward"
         /\ Len(attResult') = Len(attResult) + 1
         /\ attResult'[Len(attResult')] # Nil)
        => /\ writer'.nparts = writer.nparts
           /\ \/ writer'.buf = writer.buf /\ pc' = "attach"
              \/ /\ pc' = "send"
                 /\ writer'.buf = writer.buf \o <<"\r\n", "--", writer.boundary, "--", "\r\n">>
                 /\ BodyOf(rawMsg') = writer'.buf ]_vars

\* C25 witness: a message sent after one attachment was embedded and the
\* data of the other did not decode
C25_Witness ==
    /\ op = "forward" /\ WasSent /\ EmbeddedAtt # {}
    /\ \E i \in FailedAtt : attResult[i].context = "decoding attachment data: "

====
